---- MODULE Spec2Model ----
(***************************************************************************)
(* Model of src/libmain/progress-bar.cc: the ProgressBar logger.           *)
(*                                                                         *)
(* The shared State (Sync<State> state_) is one record variable; every     *)
(* block of code that runs with the state lock held and does not wait on   *)
(* a condition variable is one atomic action.  The update thread, the      *)
(* input thread and stop() are split at the points where they block        *)
(* (condition waits, poll, join).                                          *)
(***************************************************************************)
EXTENDS Integers, Sequences, FiniteSets, TLC

VARIABLES
    state,          \* the State behind state_ (lines 127-147)
    isTTY,          \* const bool isTTY
    printBuildLogs, \* progressBarSettings.printBuildLogs
    updateThread,   \* position of the update thread (lines 170-179)
    updateCVSignal, \* a notify_one on updateCV reached the waiting update thread
    inputThread,    \* position of the input thread (lines 196-298)
    joined,         \* the threads that have been joined
    stopPc,         \* position of the thread running stop() (lines 309-333)
    stopCalls,      \* number of stop() calls made
    stopReturns,    \* number of stop() calls that returned
    inputPipe,      \* bytes waiting in inputPipe
    stdin,          \* keys waiting on standard input
    savedTermAttrs, \* savedTermAttrs holds a value
    termRaw,        \* the terminal is in raw mode
    interrupted,    \* triggerInterrupt() was called
    fault,          \* "none", "abort" (failed assertion), "hang" (lock held for ever)
    lastOp,         \* history: the step just taken and its terminal writes
    stale           \* history: a call made update() while the dashboard was
                    \* active, and the status lines have not been recomputed
                    \* and painted since

vars == << state, isTTY, printBuildLogs, updateThread, updateCVSignal,
           inputThread, joined, stopPc, stopCalls, stopReturns, inputPipe,
           stdin, savedTermAttrs, termRaw, interrupted, fault, lastOp, stale >>

(***************************************************************************)
(* Bounds of the model.                                                    *)
(***************************************************************************)
MaxId == 2          \* activity ids are 1..MaxId (0 is "no parent")
MaxActs == 3        \* at most this many records in State::activities
MaxChain == 3       \* units on one chain of parents
UintBits == 3       \* width of the unsigned counters (uint64_t scaled down)
MaxCum == 2         \* stopActivity is called while done + failed of every kind is below this
MaxKeys == 1        \* keys waiting on standard input
MaxStops == 2       \* calls of stop()

barLength == 70

UintMod == 2 ^ UintBits
UintMax == UintMod - 1

Ids == 1 .. MaxId
Nodes == 1 .. MaxActs

AddU(a, b) == (a + b) % UintMod
SubU(a, b) == (a - b + UintMod) % UintMod
MaxOf(a, b) == IF a >= b THEN a ELSE b

Range(f) == { f[x] : x \in DOMAIN f }

(***************************************************************************)
(* std::map as a function with a finite domain.                            *)
(***************************************************************************)
EmptyMap == << >>
Has(m, k) == k \in DOMAIN m
\* insert_or_assign / operator[] assignment
Put(m, k, v) == [x \in (DOMAIN m) \cup {k} |-> IF x = k THEN v ELSE m[x]]
\* emplace: keeps the old value when the key is present
Emplace(m, k, v) == IF Has(m, k) THEN m ELSE Put(m, k, v)
Erase(m, k) == [x \in (DOMAIN m) \ {k} |-> m[x]]

ActivityTypes ==
    { "actUnknown", "actCopyPath", "actFileTransfer", "actRealise",
      "actCopyPaths", "actBuilds", "actBuild", "actOptimiseStore",
      "actVerifyPaths", "actSubstitute", "actQueryPathInfo",
      "actPostBuildHook", "actBuildWaiting", "actEvaluate" }

ResultTypes ==
    { "resFileLinked", "resBuildLogLine", "resUntrustedPath",
      "resCorruptedPath", "resSetPhase", "resProgress", "resSetExpected",
      "resPostBuildLogLine", "resExpectBuild", "resUnexpectBuild",
      "resExpectSubstitution", "resUnexpectSubstitution" }

StatusLineGroup ==
    [ idHelp |-> 0, idEvaluate |-> 1, idDownload |-> 2, idCopyPaths |-> 3,
      idBuilds |-> 4, idStatus |-> 5, idQuit |-> 6 ]

\* struct ActInfo, as emplace_back(ActInfo()) leaves it; node is the
\* identity of the list cell the iterators in the indexes point at.
ActInfo(n) ==
    [ node |-> n, s |-> "", lastLine |-> "", phase |-> "",
      type |-> "actUnknown", done |-> 0, expected |-> 0, running |-> 0,
      failed |-> 0, expectedByType |-> EmptyMap, visible |-> TRUE,
      ignored |-> FALSE, parent |-> 0,
      buildsRemaining |-> {}, substitutionsRemaining |-> {} ]

\* struct ActivitiesByType, default constructed
ActivitiesByType == [ its |-> EmptyMap, done |-> 0, expected |-> 0, failed |-> 0 ]

\* activitiesByType[type]: operator[] creates the entry when it is absent
ByType(abt, type) == IF Has(abt, type) THEN abt[type] ELSE ActivitiesByType
Touch(abt, type) == Emplace(abt, type, ActivitiesByType)

\* dereference of a std::list<ActInfo>::iterator
Deref(activities, n) ==
    CHOOSE a \in Range(activities) : a.node = n

\* assignment through an iterator
Assign(activities, n, a) ==
    [k \in DOMAIN activities |->
        IF activities[k].node = n THEN a ELSE activities[k]]

\* activities.erase(iterator)
EraseNode(activities, n) ==
    SelectSeq(activities, LAMBDA a : a.node # n)

\* the cell emplace_back allocates: any cell not in the list
FreshNode(activities) ==
    CHOOSE n \in Nodes : \A a \in Range(activities) : a.node # n

(***************************************************************************)
(* Pure helpers.                                                           *)
(***************************************************************************)
RECURSIVE SumU(_, _)
\* sum of f over the finite set S in the unsigned counter type
SumU(S, f) ==
    IF S = {} THEN 0
    ELSE LET x == CHOOSE y \in S : TRUE
         IN  AddU(f[x], SumU(S \ {x}, f))

RECURSIVE SortedSeq(_)
\* the keys of a std::map in iteration order
SortedSeq(S) ==
    IF S = {} THEN << >>
    ELSE LET m == CHOOSE y \in S : \A z \in S : y <= z
         IN  << m >> \o SortedSeq(S \ {m})

\* getActivityStats with stats.expected starting from 0 instead of act.done
getActivityStatsExpectedFromZero(activities, act) ==
    LET unit == [j \in DOMAIN act.its |-> Deref(activities, act.its[j])]
        open == { j \in DOMAIN act.its : ~unit[j].ignored }
    IN  [ done |-> AddU(act.done, SumU(open, [j \in open |-> unit[j].done])),
          expected |-> MaxOf(SumU(open, [j \in open |-> unit[j].expected]),
                             act.expected),
          running |-> SumU(open, [j \in open |-> unit[j].running]),
          failed |-> AddU(act.failed, SumU(open, [j \in open |-> unit[j].failed])),
          left |-> SumU(open, [j \in open |-> IF unit[j].expected > unit[j].done
                                    THEN SubU(unit[j].expected, unit[j].done)
                                    ELSE 0]) ]

\* getActivityStats with left += expected - done, without the comparison
getActivityStatsUnguardedLeft(activities, act) ==
    LET unit == [j \in DOMAIN act.its |-> Deref(activities, act.its[j])]
        open == { j \in DOMAIN act.its : ~unit[j].ignored }
    IN  [ done |-> AddU(act.done, SumU(open, [j \in open |-> unit[j].done])),
          expected |-> MaxOf(AddU(act.done,
                                  SumU(open, [j \in open |-> unit[j].expected])),
                             act.expected),
          running |-> SumU(open, [j \in open |-> unit[j].running]),
          failed |-> AddU(act.failed, SumU(open, [j \in open |-> unit[j].failed])),
          left |-> SumU(open, [j \in open |->
                                  SubU(unit[j].expected, unit[j].done)]) ]

\* ActivityStats getActivityStats(ActivitiesByType & act)
getActivityStats(activities, act) ==
    LET unit == [j \in DOMAIN act.its |-> Deref(activities, act.its[j])]
        open == { j \in DOMAIN act.its : ~unit[j].ignored }
        fDone == [j \in open |-> unit[j].done]
        fExpected == [j \in open |-> unit[j].expected]
        fRunning == [j \in open |-> unit[j].running]
        fFailed == [j \in open |-> unit[j].failed]
        fLeft == [j \in open |-> IF unit[j].expected > unit[j].done
                                 THEN SubU(unit[j].expected, unit[j].done) ELSE 0]
    IN  [ done |-> AddU(act.done, SumU(open, fDone)),
          expected |-> MaxOf(AddU(act.done, SumU(open, fExpected)), act.expected),
          running |-> SumU(open, fRunning),
          failed |-> AddU(act.failed, SumU(open, fFailed)),
          left |-> SumU(open, fLeft) ]

RECURSIVE hasAncestorFrom(_, _, _, _)
\* the loop of hasAncestor from activity id act on; seen holds the ids the
\* walk has been at: coming back to one of them, the loop never ends
hasAncestorFrom(st, type, act, seen) ==
    IF act = 0 THEN "false"
    ELSE IF ~Has(st.its, act) THEN "false"
    ELSE IF Deref(st.activities, st.its[act]).type = type THEN "true"
    ELSE IF act \in seen THEN "diverges"
    ELSE hasAncestorFrom(st, type,
             Deref(st.activities, st.its[act]).parent, seen \cup {act})

\* bool hasAncestor(State & state, ActivityType type, ActivityId act)
hasAncestor(st, type, act) == hasAncestorFrom(st, type, act, {})

\* one terminal write (writeToStderr): the transient message, if any, and
\* the number of previously drawn lines erased and of status lines drawn
Write(kind, erased, msg, n) ==
    [ kind |-> kind, erased |-> erased, msg |-> msg, lines |-> n ]

\* std::optional<std::string_view> msg: absent, a text, or the text of the
\* 'r' command, which lists two sets of paths
NoMsg == << >>
Msg(text) == << [ text |-> text, builds |-> {}, substitutions |-> {} ] >>
MsgRemainingNoEmptyCase(builds, substitutions) ==
    << [ text |-> "remaining", builds |-> builds,
         substitutions |-> substitutions ] >>

MsgRemaining(builds, substitutions) ==
    << [ text |-> IF builds = {} /\ substitutions = {}
                  THEN "Nothing left to be built or substituted."
                  ELSE "remaining",
         builds |-> builds, substitutions |-> substitutions ] >>

\* draw testing state.active before it clears haveUpdate
drawTestsActiveFirst(st, msg) ==
    IF ~st.active
    THEN [ st |-> st, out |-> << >> ]
    ELSE [ st |-> [st EXCEPT !.haveUpdate = FALSE,
                             !.prevStatusLines = Cardinality(DOMAIN st.statusLines)],
           out |-> << Write("draw", st.prevStatusLines, msg,
                            Cardinality(DOMAIN st.statusLines)) >> ]

\* void draw(State & state, std::optional<std::string_view> msg)
draw(st, msg) ==
    IF ~st.active
    THEN [ st |-> [st EXCEPT !.haveUpdate = FALSE], out |-> << >> ]
    ELSE [ st |-> [st EXCEPT !.haveUpdate = FALSE,
                             !.prevStatusLines = Cardinality(DOMAIN st.statusLines)],
           out |-> << Write("draw", st.prevStatusLines, msg,
                            Cardinality(DOMAIN st.statusLines)) >> ]

\* void log(State & state, Verbosity lvl, const std::string & s)
logLocked(st, s) ==
    IF st.active
    THEN draw(st, Msg(s))
    ELSE [ st |-> st, out |-> << Write("direct", 0, Msg(s), 0) >> ]

\* void update(State & state): haveUpdate = true (the notify_one on
\* updateCV is in Notify below)
update(st) == [st EXCEPT !.haveUpdate = TRUE]

\* void removeStatusLines(State & state, StatusLineGroup id)
removeStatusLines(lines, id) ==
    [k \in { x \in DOMAIN lines : x[1] # id } |-> lines[k]]

Line(kind, texts, nums) == [ kind |-> kind, texts |-> texts, nums |-> nums ]
Blank == Line("", << >>, << >>)

\* insert_or_assign of the lines ls under {id, 0}, {id, 1}, ...
PutLines(lines, id, ls) ==
    [k \in (DOMAIN lines) \cup { << id, n - 1 >> : n \in DOMAIN ls } |->
        IF k[1] = id /\ (k[2] + 1) \in DOMAIN ls THEN ls[k[2] + 1] ELSE lines[k]]

\* void resetHelp(State & state)
resetHelp(st) ==
    [st EXCEPT !.statusLines =
        PutLines(removeStatusLines(st.statusLines, StatusLineGroup.idHelp),
                 StatusLineGroup.idHelp,
                 << Blank, Line("Type 'h' for help.", << >>, << >>), Blank >>)]

\* size_t chars = barLength * std::min((double) x / expected, 1.0)
BarChars(x, expected) ==
    IF x >= expected THEN barLength ELSE (barLength * x) \div expected

\* the renderBar lambda of updateStatusLine: the three boundaries, and
\* whether its two assertions hold
renderBar(done, failed, running, expected0) ==
    LET expected == MaxOf(expected0, 1)
        chars1 == BarChars(failed, expected)
        chars2 == BarChars(AddU(failed, done), expected)
        chars3 == BarChars(AddU(AddU(failed, done), running), expected)
    IN  [ ok |-> chars1 <= chars2 /\ chars2 <= chars3,
          line |-> Line("bar", << >>, << chars1, chars2, chars3 >>) ]

\* the marker in front of a summary line
Marker(failed, running, done, expected) ==
    IF failed # 0 THEN "failed"
    ELSE IF running # 0 \/ done < expected THEN "busy" ELSE "complete"

\* the headline pass of updateStatusLine (lines 579-593)
HeadlineLines(st) ==
    LET acts == st.activities
        cand == { k \in DOMAIN acts :
                    acts[k].visible /\ ~(acts[k].s = "" /\ acts[k].lastLine = "") }
        line == IF cand = {} THEN ""
                ELSE acts[CHOOSE k \in cand : \A m \in cand : m <= k].s
        cleared == removeStatusLines(st.statusLines, StatusLineGroup.idStatus)
    IN  IF line # ""
        THEN PutLines(cleared, StatusLineGroup.idStatus,
                      << Line("status", << line >>, << >>) >>)
        ELSE cleared

\* the lines "  > label" for the units of index its, in key order
UnitLines(activities, its, skipIgnored, withPhase) ==
    LET ids == SortedSeq({ j \in DOMAIN its :
                   skipIgnored => ~Deref(activities, its[j]).ignored })
        text(a) == IF withPhase THEN << a.s, a.phase, a.lastLine >> ELSE << a.s >>
    IN  [k \in DOMAIN ids |->
            Line("unit", text(Deref(activities, its[ids[k]])), << >>)]

\* updateStatusLine, "Evaluating" group: the State after it
updateStatusLineEvaluate(st) ==
    LET G == StatusLineGroup
        abt == st.activitiesByType
    IN  IF Has(abt, "actEvaluate")
        THEN [st EXCEPT !.statusLines =
                 PutLines(@, G.idEvaluate,
                   << Line("Evaluating",
                           << IF DOMAIN abt["actEvaluate"].its # {}
                              THEN "busy" ELSE "complete" >>, << >>),
                      Blank >>)]
        ELSE st

\* one summary group of updateStatusLine: the State with the index abt and
\* the group's lines (summary line, bar, unit lines, blank line), and whether
\* the assertions of renderBar held
GroupLines(st, abt, id, summary, bar, units) ==
    [ st |-> [st EXCEPT
                !.activitiesByType = abt,
                !.statusLines =
                    PutLines(removeStatusLines(@, id), id,
                             << summary, bar.line >> \o units \o << Blank >>)],
      ok |-> bar.ok ]

\* a group whose counters are all zero: only the index is touched
NoGroup(st, abt) == [ st |-> [st EXCEPT !.activitiesByType = abt], ok |-> TRUE ]

\* the "Downloaded" group with the running counter in the bar
DownloadsGroupBarOfRunning(st, abt, fileTransfer) ==
    IF fileTransfer.done # 0 \/ fileTransfer.expected # 0
    THEN GroupLines(st, abt, StatusLineGroup.idDownload,
           Line("Downloaded",
                << Marker(0, fileTransfer.running, fileTransfer.done,
                          fileTransfer.expected) >>,
                << fileTransfer.done, fileTransfer.expected >>),
           renderBar(fileTransfer.done, 0, fileTransfer.running, fileTransfer.expected),
           UnitLines(st.activities, abt["actFileTransfer"].its, TRUE, FALSE))
    ELSE NoGroup(st, abt)

\* updateStatusLine, "Downloaded" group, given the statistics
DownloadsGroup(st, abt, fileTransfer) ==
    IF fileTransfer.done # 0 \/ fileTransfer.expected # 0
    THEN GroupLines(st, abt, StatusLineGroup.idDownload,
           Line("Downloaded",
                << Marker(0, fileTransfer.running, fileTransfer.done,
                          fileTransfer.expected) >>,
                << fileTransfer.done, fileTransfer.expected >>),
           renderBar(fileTransfer.done, 0, fileTransfer.left, fileTransfer.expected),
           UnitLines(st.activities, abt["actFileTransfer"].its, TRUE, FALSE))
    ELSE NoGroup(st, abt)

\* updateStatusLine, "Downloaded" group
updateStatusLineDownloads(st) ==
    LET abt == Touch(st.activitiesByType, "actFileTransfer")
    IN  DownloadsGroup(st, abt,
                       getActivityStats(st.activities, abt["actFileTransfer"]))

\* updateStatusLine, "Fetched" group, given the statistics
CopyPathsGroup(st, abt, copyPath, copyPaths) ==
    IF copyPath.done # 0 \/ copyPath.expected # 0
    THEN GroupLines(st, Touch(abt, "actSubstitute"), StatusLineGroup.idCopyPaths,
           Line("Fetched",
                << Marker(0, copyPaths.running, copyPaths.done,
                          copyPaths.expected) >>,
                << copyPaths.done, copyPaths.expected,
                   copyPath.done, copyPath.expected >>),
           renderBar(copyPath.done, 0, copyPath.left, copyPath.expected),
           UnitLines(st.activities, Touch(abt, "actSubstitute")["actSubstitute"].its,
                     FALSE, FALSE))
    ELSE NoGroup(st, abt)

\* updateStatusLine, "Fetched" group
updateStatusLineCopyPaths(st) ==
    LET abt == Touch(Touch(st.activitiesByType, "actCopyPath"), "actCopyPaths")
    IN  CopyPathsGroup(st, abt,
                       getActivityStats(st.activities, abt["actCopyPath"]),
                       getActivityStats(st.activities, abt["actCopyPaths"]))

\* updateStatusLine, "Built" group, given the statistics
BuildsGroup(st, abt, builds) ==
    IF builds.done # 0 \/ builds.expected # 0
    THEN GroupLines(st, Touch(abt, "actBuild"), StatusLineGroup.idBuilds,
           Line("Built",
                << Marker(builds.failed, builds.running, builds.done,
                          builds.expected) >>,
                << builds.done, builds.expected, builds.running, builds.failed >>),
           renderBar(builds.done, builds.failed, builds.running, builds.expected),
           UnitLines(st.activities, Touch(abt, "actBuild")["actBuild"].its,
                     FALSE, TRUE))
    ELSE NoGroup(st, abt)

\* updateStatusLine, "Built" group
updateStatusLineBuilds(st) ==
    LET abt == Touch(st.activitiesByType, "actBuilds")
    IN  BuildsGroup(st, abt, getActivityStats(st.activities, abt["actBuilds"]))

\* the conjunction of the groups' assertion results
GroupsDone(dl, cp, b) == [ st |-> b.st, ok |-> dl.ok /\ cp.ok /\ b.ok ]

\* the "Built" group after the results dl and cp of the two groups before it
BuildsAfter(dl, cp) == GroupsDone(dl, cp, updateStatusLineBuilds(cp.st))

\* the "Fetched" and "Built" groups after the result dl of "Downloaded"
CopyPathsAfter(dl) == BuildsAfter(dl, updateStatusLineCopyPaths(dl.st))

\* void updateStatusLine(State & state): the new state, and whether every
\* assertion of renderBar held
updateStatusLine(st) ==
    CopyPathsAfter(
        updateStatusLineDownloads(
            updateStatusLineEvaluate(
                [st EXCEPT !.statusLines = HeadlineLines(st)])))

(***************************************************************************)
(* The Logger interface, as functions of the locked State.                 *)
(***************************************************************************)

\* the label startActivity derives for the kinds with a template
\* (lines 398-437); f0 stands for the text built from the fields
FormatLabel(type, s, f0) ==
    CASE type = "actBuild" -> "build " \o f0
      [] type = "actSubstitute" -> "substitute " \o f0
      [] type = "actPostBuildHook" -> "post-build " \o f0
      [] type = "actQueryPathInfo" -> "querying " \o f0
      [] type = "actFileTransfer" -> f0
      [] OTHER -> s

\* a || b on the outcomes of hasAncestor, b not evaluated when a is true
OrElse(a, b) ==
    IF a = "true" THEN "true" ELSE IF a = "diverges" THEN "diverges" ELSE b

\* lines 390-396 of startActivity: the new record and the two indexes
startActivityInsert(st, act, type, s, f0, parent) ==
    LET n == FreshNode(st.activities)
        info == [ActInfo(n) EXCEPT !.s = FormatLabel(type, s, f0),
                                   !.type = type, !.parent = parent]
        abt == Touch(st.activitiesByType, type)
    IN  [st EXCEPT
            !.activities = Append(st.activities, info),
            !.its = Emplace(st.its, act, n),
            !.activitiesByType =
                [abt EXCEPT ![type].its = Emplace(abt[type].its, act, n)]]

\* startActivity marking a FileTransfer or CopyPath unit ignored when a
\* Substitute or QueryPathInfo unit is on its parent chain
startActivityIgnoresUnderSubstitute(st, act, logIt, type, s, f0, parent) ==
    LET logged == IF logIt THEN logLocked(st, s \o "...")
                  ELSE [ st |-> st, out |-> << >> ]
        st1 == startActivityInsert(logged.st, act, type, s, f0, parent)
        n == st1.activities[Len(st1.activities)].node
        ign == IF type \in { "actFileTransfer", "actCopyPath" }
               THEN OrElse(hasAncestor(st1, "actSubstitute", parent),
                           hasAncestor(st1, "actQueryPathInfo", parent))
               ELSE "false"
        hidden == type \in { "actFileTransfer", "actBuild", "actSubstitute" }
        info == [Deref(st1.activities, n) EXCEPT
                    !.ignored = (ign = "true"), !.visible = ~hidden]
    IN  [ st |-> IF ign = "diverges" THEN st1
                 ELSE update([st1 EXCEPT
                          !.activities = Assign(st1.activities, n, info)]),
          out |-> logged.out,
          hang |-> ign = "diverges" ]

\* void startActivity(act, lvl, type, s, fields, parent); logIt is
\* lvl <= verbosity && !s.empty() && type != actBuildWaiting.
\* hang: a hasAncestor walk that never returns, the lock still held
startActivity(st, act, logIt, type, s, f0, parent) ==
    LET logged == IF logIt THEN logLocked(st, s \o "...")
                  ELSE [ st |-> st, out |-> << >> ]
        st1 == startActivityInsert(logged.st, act, type, s, f0, parent)
        n == st1.activities[Len(st1.activities)].node
        ign == IF type = "actFileTransfer"
               THEN OrElse(hasAncestor(st1, "actCopyPath", parent),
                           hasAncestor(st1, "actQueryPathInfo", parent))
               ELSE "false"
        sub == IF ign # "diverges" /\ type = "actCopyPath"
               THEN hasAncestor(st1, "actSubstitute", parent)
               ELSE "false"
        hidden == type \in { "actFileTransfer", "actBuild", "actSubstitute" }
                  \/ sub = "true"
        info == [Deref(st1.activities, n) EXCEPT
                    !.ignored = (ign = "true"), !.visible = ~hidden]
        hang == ign = "diverges" \/ sub = "diverges"
    IN  [ st |-> IF hang THEN st1
                 ELSE update([st1 EXCEPT
                          !.activities = Assign(st1.activities, n, info)]),
          out |-> logged.out,
          hang |-> hang ]

\* stopActivity without actByType.its.erase(act)
stopActivityKeepsKindIndex(st, act) ==
    IF Has(st.its, act)
    THEN LET i == Deref(st.activities, st.its[act])
             abt0 == Touch(st.activitiesByType, i.type)
             folded == [abt0 EXCEPT
                          ![i.type].done = AddU(@, i.done),
                          ![i.type].failed = AddU(@, i.failed)]
         IN  update([st EXCEPT
                 !.activitiesByType = IF i.ignored THEN abt0 ELSE folded,
                 !.activities = EraseNode(st.activities, i.node),
                 !.its = Erase(st.its, act)])
    ELSE update(st)

\* stopActivity looking the id up with its[act], which inserts it
stopActivityInsertsId(st, act) ==
    IF Has(st.its, act)
    THEN LET i == Deref(st.activities, st.its[act])
             abt0 == Touch(st.activitiesByType, i.type)
             folded == [abt0 EXCEPT
                          ![i.type].done = AddU(@, i.done),
                          ![i.type].failed = AddU(@, i.failed),
                          ![i.type].its = Erase(@, act)]
         IN  update([st EXCEPT
                 !.activitiesByType = folded,
                 !.activities = EraseNode(st.activities, i.node),
                 !.its = Erase(st.its, act)])
    ELSE update([st EXCEPT !.its = Put(@, act, 0)])

\* stopActivity without the addition of done and failed
stopActivityNoFold(st, act) ==
    IF Has(st.its, act)
    THEN LET i == Deref(st.activities, st.its[act])
             abt0 == Touch(st.activitiesByType, i.type)
         IN  update([st EXCEPT
                 !.activitiesByType = [abt0 EXCEPT ![i.type].its = Erase(@, act)],
                 !.activities = EraseNode(st.activities, i.node),
                 !.its = Erase(st.its, act)])
    ELSE update(st)

\* stopActivity adding done but not failed
stopActivityDropsFailed(st, act) ==
    IF Has(st.its, act)
    THEN LET i == Deref(st.activities, st.its[act])
             abt0 == Touch(st.activitiesByType, i.type)
         IN  update([st EXCEPT
                 !.activitiesByType =
                     [abt0 EXCEPT ![i.type].its = Erase(@, act),
                                  ![i.type].done = AddU(@, i.done)],
                 !.activities = EraseNode(st.activities, i.node),
                 !.its = Erase(st.its, act)])
    ELSE update(st)

\* stopActivity without the loop over expectedByType
stopActivityKeepsExpected(st, act) ==
    IF Has(st.its, act)
    THEN LET i == Deref(st.activities, st.its[act])
             abt0 == Touch(st.activitiesByType, i.type)
             folded == [abt0 EXCEPT
                          ![i.type].done = AddU(@, i.done),
                          ![i.type].failed = AddU(@, i.failed)]
             abt1 == IF i.ignored THEN abt0 ELSE folded
             abt2 == [abt1 EXCEPT ![i.type].its = Erase(@, act)]
         IN  update([st EXCEPT
                 !.activitiesByType = abt2,
                 !.activities = EraseNode(st.activities, st.its[act]),
                 !.its = Erase(st.its, act)])
    ELSE update(st)

\* void stopActivity(ActivityId act)
stopActivity(st, act) ==
    IF Has(st.its, act)
    THEN LET i == Deref(st.activities, st.its[act])
             abt0 == Touch(st.activitiesByType, i.type)
             folded == [abt0 EXCEPT
                          ![i.type].done = AddU(@, i.done),
                          ![i.type].failed = AddU(@, i.failed)]
             abt1 == IF i.ignored THEN abt0
                     ELSE [k \in (DOMAIN folded) \cup (DOMAIN i.expectedByType) |->
                             IF k \in DOMAIN i.expectedByType
                             THEN [ByType(folded, k) EXCEPT
                                     !.expected = SubU(@, i.expectedByType[k])]
                             ELSE folded[k]]
             abt2 == [abt1 EXCEPT ![i.type].its = Erase(@, act)]
         IN  update([st EXCEPT
                 !.activitiesByType = abt2,
                 !.activities = EraseNode(st.activities, i.node),
                 !.its = Erase(st.its, act)])
    ELSE update(st)

\* the arguments of a result() call: the Field vector read by getS/getI.
\* s is the string field, i0..i3 the integer fields, type the ActivityType
\* a resSetExpected names in field 0
Fields(s, type, i0, i1, i2, i3) ==
    [ s |-> s, type |-> type, i0 |-> i0, i1 |-> i1, i2 |-> i2, i3 |-> i3 ]

\* result with resSetExpected applied whether the unit is ignored or not
resultSetsExpectedOfIgnored(st, logs, act, type, fields) ==
    IF ~Has(st.its, act)
    THEN [ st |-> st, out |-> << >>, ok |-> FALSE, notify |-> FALSE ]
    ELSE
    LET n == st.its[act]
        actInfo == Deref(st.activities, n)
        set(a) == [st EXCEPT !.activities = Assign(st.activities, n, a)]
        quiet(s) == [ st |-> s, out |-> << >>, ok |-> TRUE, notify |-> FALSE ]
        upd(s) == [ st |-> update(s), out |-> << >>, ok |-> TRUE, notify |-> TRUE ]
    IN  CASE type = "resFileLinked" ->
               upd(([st EXCEPT !.filesLinked = AddU(@, 1),
                                       !.bytesLinked = AddU(@, fields.i0)]))
          [] type \in { "resBuildLogLine", "resPostBuildLogLine" } ->
               IF fields.s # ""
               THEN LET st1 == set([actInfo EXCEPT !.lastLine = fields.s])
                    IN  IF logs
                        THEN LET l == logLocked(st1, fields.s)
                             IN  [ st |-> l.st, out |-> l.out, ok |-> TRUE,
                                   notify |-> FALSE ]
                        ELSE upd(st1)
               ELSE quiet(st)
          [] type = "resUntrustedPath" ->
               upd(([st EXCEPT !.untrustedPaths = AddU(@, 1)]))
          [] type = "resCorruptedPath" ->
               upd(([st EXCEPT !.corruptedPaths = AddU(@, 1)]))
          [] type = "resSetPhase" ->
               upd((set([actInfo EXCEPT !.phase = fields.s])))
          [] type = "resProgress" ->
               IF ~actInfo.ignored
               THEN upd((set([actInfo EXCEPT
                        !.done = fields.i0, !.expected = fields.i1,
                        !.running = fields.i2, !.failed = fields.i3])))
               ELSE quiet(st)
          [] type = "resSetExpected" ->
               IF TRUE
               THEN LET j == IF Has(actInfo.expectedByType, fields.type)
                             THEN actInfo.expectedByType[fields.type] ELSE 0
                        abt == Touch(st.activitiesByType, fields.type)
                        st1 == set([actInfo EXCEPT !.expectedByType =
                                        Put(@, fields.type, fields.i1)])
                    IN  upd(([st1 EXCEPT !.activitiesByType =
                            [abt EXCEPT ![fields.type].expected =
                                AddU(SubU(@, j), fields.i1)]]))
               ELSE quiet(st)
          [] type = "resExpectBuild" ->
               quiet(set([actInfo EXCEPT !.buildsRemaining = @ \cup { fields.s }]))
          [] type = "resUnexpectBuild" ->
               quiet(set([actInfo EXCEPT !.buildsRemaining = @ \ { fields.s }]))
          [] type = "resExpectSubstitution" ->
               quiet(set([actInfo EXCEPT !.substitutionsRemaining = @ \cup { fields.s }]))
          [] type = "resUnexpectSubstitution" ->
               quiet(set([actInfo EXCEPT !.substitutionsRemaining = @ \ { fields.s }]))
          [] OTHER -> quiet(st)

\* result with resSetExpected adding the value to the unit's earlier one
resultAccumulatesExpected(st, logs, act, type, fields) ==
    IF ~Has(st.its, act)
    THEN [ st |-> st, out |-> << >>, ok |-> FALSE, notify |-> FALSE ]
    ELSE
    LET n == st.its[act]
        actInfo == Deref(st.activities, n)
        set(a) == [st EXCEPT !.activities = Assign(st.activities, n, a)]
        quiet(s) == [ st |-> s, out |-> << >>, ok |-> TRUE, notify |-> FALSE ]
        upd(s) == [ st |-> update(s), out |-> << >>, ok |-> TRUE, notify |-> TRUE ]
    IN  CASE type = "resFileLinked" ->
               upd(([st EXCEPT !.filesLinked = AddU(@, 1),
                                       !.bytesLinked = AddU(@, fields.i0)]))
          [] type \in { "resBuildLogLine", "resPostBuildLogLine" } ->
               IF fields.s # ""
               THEN LET st1 == set([actInfo EXCEPT !.lastLine = fields.s])
                    IN  IF logs
                        THEN LET l == logLocked(st1, fields.s)
                             IN  [ st |-> l.st, out |-> l.out, ok |-> TRUE,
                                   notify |-> FALSE ]
                        ELSE upd(st1)
               ELSE quiet(st)
          [] type = "resUntrustedPath" ->
               upd(([st EXCEPT !.untrustedPaths = AddU(@, 1)]))
          [] type = "resCorruptedPath" ->
               upd(([st EXCEPT !.corruptedPaths = AddU(@, 1)]))
          [] type = "resSetPhase" ->
               upd((set([actInfo EXCEPT !.phase = fields.s])))
          [] type = "resProgress" ->
               IF ~actInfo.ignored
               THEN upd((set([actInfo EXCEPT
                        !.done = fields.i0, !.expected = fields.i1,
                        !.running = fields.i2, !.failed = fields.i3])))
               ELSE quiet(st)
          [] type = "resSetExpected" ->
               IF ~actInfo.ignored
               THEN LET j == IF Has(actInfo.expectedByType, fields.type)
                             THEN actInfo.expectedByType[fields.type] ELSE 0
                        abt == Touch(st.activitiesByType, fields.type)
                        st1 == set([actInfo EXCEPT !.expectedByType =
                                        Put(@, fields.type, AddU(j, fields.i1))])
                    IN  upd(([st1 EXCEPT !.activitiesByType =
                            [abt EXCEPT ![fields.type].expected =
                                AddU(@, fields.i1)]]))
               ELSE quiet(st)
          [] type = "resExpectBuild" ->
               quiet(set([actInfo EXCEPT !.buildsRemaining = @ \cup { fields.s }]))
          [] type = "resUnexpectBuild" ->
               quiet(set([actInfo EXCEPT !.buildsRemaining = @ \ { fields.s }]))
          [] type = "resExpectSubstitution" ->
               quiet(set([actInfo EXCEPT !.substitutionsRemaining = @ \cup { fields.s }]))
          [] type = "resUnexpectSubstitution" ->
               quiet(set([actInfo EXCEPT !.substitutionsRemaining = @ \ { fields.s }]))
          [] OTHER -> quiet(st)

\* void result(ActivityId act, ResultType type, const std::vector<Field> &)
\* ok is FALSE when assert(i != state->its.end()) fails; notify tells
\* whether update() was called
result(st, logs, act, type, fields) ==
    IF ~Has(st.its, act)
    THEN [ st |-> st, out |-> << >>, ok |-> FALSE, notify |-> FALSE ]
    ELSE
    LET n == st.its[act]
        actInfo == Deref(st.activities, n)
        set(a) == [st EXCEPT !.activities = Assign(st.activities, n, a)]
        quiet(s) == [ st |-> s, out |-> << >>, ok |-> TRUE, notify |-> FALSE ]
        upd(s) == [ st |-> update(s), out |-> << >>, ok |-> TRUE, notify |-> TRUE ]
    IN  CASE type = "resFileLinked" ->
               upd(([st EXCEPT !.filesLinked = AddU(@, 1),
                                       !.bytesLinked = AddU(@, fields.i0)]))
          [] type \in { "resBuildLogLine", "resPostBuildLogLine" } ->
               IF fields.s # ""
               THEN LET st1 == set([actInfo EXCEPT !.lastLine = fields.s])
                    IN  IF logs
                        THEN LET l == logLocked(st1, fields.s)
                             IN  [ st |-> l.st, out |-> l.out, ok |-> TRUE,
                                   notify |-> FALSE ]
                        ELSE upd(st1)
               ELSE quiet(st)
          [] type = "resUntrustedPath" ->
               upd(([st EXCEPT !.untrustedPaths = AddU(@, 1)]))
          [] type = "resCorruptedPath" ->
               upd(([st EXCEPT !.corruptedPaths = AddU(@, 1)]))
          [] type = "resSetPhase" ->
               upd((set([actInfo EXCEPT !.phase = fields.s])))
          [] type = "resProgress" ->
               IF ~actInfo.ignored
               THEN upd((set([actInfo EXCEPT
                        !.done = fields.i0, !.expected = fields.i1,
                        !.running = fields.i2, !.failed = fields.i3])))
               ELSE quiet(st)
          [] type = "resSetExpected" ->
               IF ~actInfo.ignored
               THEN LET j == IF Has(actInfo.expectedByType, fields.type)
                             THEN actInfo.expectedByType[fields.type] ELSE 0
                        abt == Touch(st.activitiesByType, fields.type)
                        st1 == set([actInfo EXCEPT !.expectedByType =
                                        Put(@, fields.type, fields.i1)])
                    IN  upd(([st1 EXCEPT !.activitiesByType =
                            [abt EXCEPT ![fields.type].expected =
                                AddU(SubU(@, j), fields.i1)]]))
               ELSE quiet(st)
          [] type = "resExpectBuild" ->
               quiet(set([actInfo EXCEPT !.buildsRemaining = @ \cup { fields.s }]))
          [] type = "resUnexpectBuild" ->
               quiet(set([actInfo EXCEPT !.buildsRemaining = @ \ { fields.s }]))
          [] type = "resExpectSubstitution" ->
               quiet(set([actInfo EXCEPT !.substitutionsRemaining = @ \cup { fields.s }]))
          [] type = "resUnexpectSubstitution" ->
               quiet(set([actInfo EXCEPT !.substitutionsRemaining = @ \ { fields.s }]))
          [] OTHER -> quiet(st)

(***************************************************************************)
(* The state after construction (lines 164-302).                           *)
(***************************************************************************)
State0(tty) ==
    [ activities |-> << >>, its |-> EmptyMap, activitiesByType |-> EmptyMap,
      filesLinked |-> 0, bytesLinked |-> 0,
      corruptedPaths |-> 0, untrustedPaths |-> 0,
      active |-> tty, haveUpdate |-> TRUE,
      statusLines |-> EmptyMap, prevStatusLines |-> 0, helpShown |-> FALSE ]

\* the history record of a step: the call or thread step taken, who took
\* it, the id it names (the number of the call for the steps of stop()),
\* whether that id was open when the call was made, and the terminal
\* writes the step made
Op(op, by, act, out) ==
    [ op |-> op, by |-> by, act |-> act,
      open |-> (by = "producer" /\ Has(state.its, act)), out |-> out ]

InitWith(tty) ==
    /\ isTTY = tty
    /\ state = IF tty THEN resetHelp(State0(tty)) ELSE State0(tty)
    /\ printBuildLogs = FALSE
    /\ updateThread = "start"
    /\ updateCVSignal = FALSE
    /\ inputThread = IF tty THEN "poll" ELSE "unstarted"
    /\ joined = {}
    /\ stopPc = "idle"
    /\ stopCalls = 0
    /\ stopReturns = 0
    /\ inputPipe = 0
    /\ stdin = << >>
    /\ savedTermAttrs = tty
    /\ termRaw = tty
    /\ interrupted = FALSE
    /\ fault = "none"
    /\ lastOp = Op("construct", "main", 0, << >>)
    /\ stale = FALSE

\* updateCV.notify_one(): it reaches the update thread only when that
\* thread is waiting on updateCV
Notified(yes) == updateCVSignal \/ (yes /\ updateThread = "waitUpdateCV")

threadVars == << updateThread, inputThread, joined, stopPc, stopCalls,
                 stopReturns, inputPipe, stdin, savedTermAttrs, termRaw,
                 interrupted >>

(***************************************************************************)
(* Calls made by producer threads.  Each holds the state lock from its     *)
(* first line to its last.                                                 *)
(***************************************************************************)
StartActivity(act, logIt, type, s, f0, parent) ==
    /\ fault = "none"
    /\ Len(state.activities) < MaxActs
    /\ logIt => (s # "" /\ type # "actBuildWaiting")
    /\ LET r == startActivity(state, act, logIt, type, s, f0, parent)
       IN  /\ state' = r.st
           /\ fault' = IF r.hang THEN "hang" ELSE "none"
           /\ updateCVSignal' = Notified(~r.hang)
           /\ stale' = (stale \/ (~r.hang /\ state.active))
           /\ lastOp' = Op("startActivity", "producer", act, r.out)
    /\ UNCHANGED << isTTY, printBuildLogs, threadVars >>

StopActivity(act) ==
    /\ fault = "none"
    /\ state' = stopActivity(state, act)
    /\ updateCVSignal' = Notified(TRUE)
    /\ stale' = (stale \/ state.active)
    /\ lastOp' = Op("stopActivity", "producer", act, << >>)
    /\ UNCHANGED << isTTY, printBuildLogs, threadVars, fault >>

Result(act, type, fields) ==
    /\ fault = "none"
    /\ LET r == result(state, printBuildLogs, act, type, fields)
       IN  /\ state' = r.st
           /\ fault' = IF r.ok THEN "none" ELSE "abort"
           /\ updateCVSignal' = Notified(r.notify)
           /\ stale' = (stale \/ (r.notify /\ state.active))
           /\ lastOp' = Op(type, "producer", act, r.out)
    /\ UNCHANGED << isTTY, printBuildLogs, threadVars >>

\* void log(Verbosity lvl, const FormatOrString & fs), and logEI
Log(s) ==
    /\ fault = "none"
    /\ LET r == logLocked(state, s)
       IN  /\ state' = r.st
           /\ lastOp' = Op("log", "producer", 0, r.out)
    /\ UNCHANGED << isTTY, printBuildLogs, threadVars, fault, updateCVSignal, stale >>

(***************************************************************************)
(* The update thread (lines 170-179).                                      *)
(***************************************************************************)
\* lines 176-177 given the result u of updateStatusLine: draw, then
\* wait_for(quitCV, 50 ms)
UpdateBodyOf(u) ==
    LET d == draw(u.st, NoMsg)
    IN  /\ state' = IF u.ok THEN d.st ELSE u.st
        /\ fault' = IF u.ok THEN "none" ELSE "abort"
        /\ updateThread' = IF u.ok THEN "waitQuitCV" ELSE updateThread
        /\ updateCVSignal' = FALSE
        /\ stale' = IF u.ok /\ state.active THEN FALSE ELSE stale
        /\ lastOp' = Op("redraw", "updateThread", 0, IF u.ok THEN d.out ELSE << >>)

\* lines 175-177: updateStatusLine, draw, wait_for(quitCV, 50 ms)
UpdateBody == UpdateBodyOf(updateStatusLine(state))

\* lines 171-174: the loop test at thread start and after the wait of
\* line 177 ended (by its timeout or by quitCV), then the test of haveUpdate
UpdateThreadLoop ==
    /\ fault = "none"
    /\ updateThread \in { "start", "waitQuitCV" }
    /\ IF ~state.active
       THEN /\ updateThread' = "exited"
            /\ lastOp' = Op("exit", "updateThread", 0, << >>)
            /\ UNCHANGED << state, fault, updateCVSignal, stale >>
       ELSE IF ~state.haveUpdate
       THEN /\ updateThread' = "waitUpdateCV"
            /\ updateCVSignal' = FALSE
            /\ lastOp' = Op("wait", "updateThread", 0, << >>)
            /\ UNCHANGED << state, fault, stale >>
       ELSE UpdateBody
    /\ UNCHANGED << isTTY, printBuildLogs, inputThread, joined, stopPc,
                    stopCalls, stopReturns, inputPipe, stdin, savedTermAttrs,
                    termRaw, interrupted >>

\* line 174 returns because updateCV was notified
UpdateThreadWake ==
    /\ fault = "none"
    /\ updateThread = "waitUpdateCV"
    /\ updateCVSignal
    /\ UpdateBody
    /\ UNCHANGED << isTTY, printBuildLogs, inputThread, joined, stopPc,
                    stopCalls, stopReturns, inputPipe, stdin, savedTermAttrs,
                    termRaw, interrupted >>

\* line 174 returns without a notification (condition_variable::wait may
\* wake spuriously)
UpdateThreadSpuriousWake ==
    /\ fault = "none"
    /\ updateThread = "waitUpdateCV"
    /\ ~updateCVSignal
    /\ UpdateBody
    /\ UNCHANGED << isTTY, printBuildLogs, inputThread, joined, stopPc,
                    stopCalls, stopReturns, inputPipe, stdin, savedTermAttrs,
                    termRaw, interrupted >>

(***************************************************************************)
(* stop() (lines 309-333), one caller at a time.                           *)
(***************************************************************************)
InputJoinable == inputThread # "unstarted" /\ "inputThread" \notin joined

\* lines 311-313: the test of joinable() and the write of "x"
StopCall ==
    /\ fault # "abort"
    /\ stopPc = "idle"
    /\ stopCalls < MaxStops
    /\ stopCalls' = stopCalls + 1
    /\ IF InputJoinable
       THEN inputPipe' = inputPipe + 1 /\ stopPc' = "joinInput"
       ELSE inputPipe' = inputPipe /\ stopPc' = "lock"
    /\ lastOp' = Op("stop:call", "stop", stopCalls + 1, << >>)
    /\ UNCHANGED << state, isTTY, printBuildLogs, updateThread, updateCVSignal,
                    inputThread, joined, stopReturns, stdin, savedTermAttrs,
                    termRaw, interrupted, fault, stale >>

\* line 314: inputThread.join() returns
StopJoinInput ==
    /\ fault # "abort"
    /\ stopPc = "joinInput"
    /\ inputThread = "exited"
    /\ joined' = joined \cup { "inputThread" }
    /\ stopPc' = "lock"
    /\ lastOp' = Op("stop:joinInput", "stop", stopCalls, << >>)
    /\ UNCHANGED << state, isTTY, printBuildLogs, updateThread, updateCVSignal,
                    inputThread, stopCalls, stopReturns, inputPipe, stdin,
                    savedTermAttrs, termRaw, interrupted, fault, stale >>

\* the locked block of stop() without "if (!state->active) return"
StopLockedNoActiveTest ==
    /\ fault = "none"
    /\ stopPc = "lock"
    /\ LET d == draw([state EXCEPT !.statusLines = EmptyMap], NoMsg)
       IN  /\ state' = [d.st EXCEPT !.active = FALSE]
           /\ updateCVSignal' = Notified(TRUE)
           /\ savedTermAttrs' = FALSE
           /\ termRaw' = IF savedTermAttrs THEN FALSE ELSE termRaw
           /\ stopPc' = "joinUpdate"
           /\ stopReturns' = stopReturns
           /\ lastOp' = Op("stop:locked", "stop", stopCalls, d.out)
    /\ UNCHANGED << isTTY, printBuildLogs, updateThread, inputThread, joined,
                    stopCalls, inputPipe, stdin, interrupted, fault, stale >>

\* lines 317-330: the locked block
StopLocked ==
    /\ fault = "none"
    /\ stopPc = "lock"
    /\ IF ~state.active
       THEN /\ stopPc' = "idle"
            /\ stopReturns' = stopReturns + 1
            /\ lastOp' = Op("stop:return", "stop", stopCalls, << >>)
            /\ UNCHANGED << state, updateCVSignal, savedTermAttrs, termRaw >>
       ELSE LET d == draw([state EXCEPT !.statusLines = EmptyMap], NoMsg)
            IN  /\ state' = [d.st EXCEPT !.active = FALSE]
                /\ updateCVSignal' = Notified(TRUE)
                /\ savedTermAttrs' = FALSE
                /\ termRaw' = IF savedTermAttrs THEN FALSE ELSE termRaw
                /\ stopPc' = "joinUpdate"
                /\ stopReturns' = stopReturns
                /\ lastOp' = Op("stop:locked", "stop", stopCalls, d.out)
    /\ UNCHANGED << isTTY, printBuildLogs, updateThread, inputThread, joined,
                    stopCalls, inputPipe, stdin, interrupted, fault, stale >>

\* line 332: updateThread.join() returns
StopJoinUpdate ==
    /\ fault # "abort"
    /\ stopPc = "joinUpdate"
    /\ updateThread = "exited"
    /\ joined' = joined \cup { "updateThread" }
    /\ stopPc' = "idle"
    /\ stopReturns' = stopReturns + 1
    /\ lastOp' = Op("stop:return", "stop", stopCalls, << >>)
    /\ UNCHANGED << state, isTTY, printBuildLogs, updateThread, updateCVSignal,
                    inputThread, stopCalls, inputPipe, stdin, savedTermAttrs,
                    termRaw, interrupted, fault, stale >>

(***************************************************************************)
(* The input thread (lines 196-298).                                       *)
(***************************************************************************)
\* the keys a user can type, after std::tolower; "eof" is the end of
\* standard input (read returns 0), "x" any key without a command
Keys == { "q", "l", "+", "-", "h", "r", "x", "eof" }

StdinReadable == stdin # << >>
PipeReadable == inputPipe > 0

\* the help overlay of lines 254-263
HelpLines ==
    << Blank,
       Line("The following keys are available:", << >>, << >>),
       Line("  'v' to increase verbosity.", << >>, << >>),
       Line("  '-' to decrease verbosity.", << >>, << >>),
       Line("  'l' to show build log output.", << >>, << >>),
       Line("  'r' to show what paths remain to be built/substituted.", << >>, << >>),
       Line("  'h' to hide this help message.", << >>, << >>),
       Line("  'q' to quit.", << >>, << >>),
       Blank >>

RECURSIVE UnionOver(_, _)
\* lines 270-274: the union of a path set over the list of activities
UnionOver(activities, field) ==
    IF activities = << >> THEN {}
    ELSE (IF field = "builds" THEN Head(activities).buildsRemaining
          ELSE Head(activities).substitutionsRemaining)
         \cup UnionOver(Tail(activities), field)

\* lines 228-236, key 'l', given the result u of updateStatusLine
keyToggleBuildLogs(u, logs) ==
    LET d == draw(u.st, Msg(IF ~logs THEN "Enabling build logs."
                            ELSE "Disabling build logs."))
    IN  IF u.ok
        THEN [ st |-> d.st, out |-> d.out, logs |-> ~logs,
               interrupt |-> FALSE, ok |-> TRUE, recomputed |-> TRUE ]
        ELSE [ st |-> u.st, out |-> << >>, logs |-> ~logs,
               interrupt |-> FALSE, ok |-> FALSE, recomputed |-> FALSE ]

\* lines 222-296: the command of key c, run with the state lock held.
\* The new state, the terminal writes, the new printBuildLogs, whether
\* triggerInterrupt() ran, whether an assertion failed, and whether the
\* status lines were recomputed
keyCommand(st, logs, c) ==
    LET G == StatusLineGroup
        plain(d) == [ st |-> d.st, out |-> d.out, logs |-> logs,
                      interrupt |-> FALSE, ok |-> TRUE, recomputed |-> FALSE ]
    IN  CASE c = "q" ->
               LET d == draw([st EXCEPT !.statusLines =
                                 Put(@, << G.idQuit, 0 >>,
                                     Line("Exiting...", << >>, << >>))], NoMsg)
               IN  [plain(d) EXCEPT !.interrupt = TRUE]
          [] c = "l" -> keyToggleBuildLogs(updateStatusLine(st), logs)
          [] c = "+" -> plain(logLocked(st, "Increasing verbosity..."))
          [] c = "-" -> plain(logLocked(st, "Decreasing verbosity..."))
          [] c = "h" ->
               IF st.helpShown
               THEN plain(draw(resetHelp([st EXCEPT !.helpShown = FALSE]), NoMsg))
               ELSE plain(draw([st EXCEPT !.helpShown = TRUE,
                                   !.statusLines = PutLines(@, G.idHelp, HelpLines)],
                               NoMsg))
          [] c = "r" ->
               plain(draw(st, MsgRemaining(UnionOver(st.activities, "builds"),
                                           UnionOver(st.activities, "substitutions"))))
          [] OTHER -> plain([ st |-> st, out |-> << >> ])

\* line 204 with exactly one descriptor ready, and it is the pipe: line 209
InputExit ==
    /\ fault # "abort"
    /\ inputThread = "poll"
    /\ PipeReadable /\ ~StdinReadable
    /\ inputThread' = "exited"
    /\ lastOp' = Op("exit", "inputThread", 0, << >>)
    /\ UNCHANGED << state, isTTY, printBuildLogs, updateThread, updateCVSignal,
                    joined, stopPc, stopCalls, stopReturns, inputPipe, stdin,
                    savedTermAttrs, termRaw, interrupted, fault, stale >>

\* line 204 with both descriptors ready: poll returns 2, so the test
\* "!= 1" holds with errno left over from an earlier call.  Either errno is
\* EINTR and the loop polls again, or assert(false) ends the process
InputPollBoth ==
    /\ fault # "abort"
    /\ inputThread = "poll"
    /\ PipeReadable /\ StdinReadable
    /\ \E errnoIsEINTR \in BOOLEAN :
          /\ fault' = IF errnoIsEINTR THEN fault ELSE "abort"
          /\ lastOp' = Op(IF errnoIsEINTR THEN "poll:again" ELSE "poll:assert",
                          "inputThread", 0, << >>)
    /\ UNCHANGED << state, isTTY, printBuildLogs, updateThread, updateCVSignal,
                    inputThread, joined, stopPc, stopCalls, stopReturns,
                    inputPipe, stdin, savedTermAttrs, termRaw, interrupted, stale >>

\* the effect r of a key command on the program's state
InputKeyDone(r) ==
    /\ state' = r.st
    /\ printBuildLogs' = r.logs
    /\ interrupted' = (interrupted \/ r.interrupt)
    /\ fault' = IF r.ok THEN "none" ELSE "abort"
    /\ stale' = IF r.recomputed /\ state.active THEN FALSE ELSE stale
    /\ inputThread' = "poll"
    /\ lastOp' = Op("key:" \o Head(stdin), "inputThread", 0, r.out)

\* line 204 with only standard input ready: lines 213-296
InputKey ==
    /\ fault = "none"
    /\ inputThread = "poll"
    /\ StdinReadable /\ ~PipeReadable
    /\ stdin' = Tail(stdin)
    /\ IF Head(stdin) = "eof"
       THEN /\ inputThread' = "exited"
            /\ lastOp' = Op("exit", "inputThread", 0, << >>)
            /\ UNCHANGED << state, printBuildLogs, interrupted, fault, stale >>
       ELSE InputKeyDone(keyCommand(state, printBuildLogs, Head(stdin)))
    /\ UNCHANGED << isTTY, updateThread, updateCVSignal, joined, stopPc,
                    stopCalls, stopReturns, inputPipe, savedTermAttrs, termRaw >>

\* the user types a key
TypeKey(c) ==
    /\ fault # "abort"
    /\ isTTY
    /\ Len(stdin) < MaxKeys
    /\ stdin' = Append(stdin, c)
    /\ lastOp' = Op("type", "user", 0, << >>)
    /\ UNCHANGED << state, isTTY, printBuildLogs, updateThread, updateCVSignal,
                    inputThread, joined, stopPc, stopCalls, stopReturns,
                    inputPipe, savedTermAttrs, termRaw, interrupted, fault, stale >>

(***************************************************************************)
(* Spec: the registry under sequences of producer calls.                   *)
(***************************************************************************)
\* ActivityId is unique while the unit is open (ids come from a counter in
\* the callers), so a call of startActivity names an id that is not open
Fresh(act) == ~Has(state.its, act)

StartTypes == { "actCopyPath", "actFileTransfer" }
Parents == 0 .. MaxId

\* the (done, expected, running, failed) a resProgress may carry
ProgressFields ==
    { Fields("", "actUnknown", 1, 2, 1, 0),
      Fields("", "actUnknown", 2, 2, 0, 1) }

\* the (type, value) a resSetExpected may carry
ExpectedFields ==
    { Fields("", "actCopyPath", 0, v, 0, 0) : v \in { 2 } }

\* the cumulative counters are kept within MaxCum by bounding the calls
\* that make them grow
CumBounded ==
    \A k \in DOMAIN state.activitiesByType :
        state.activitiesByType[k].done + state.activitiesByType[k].failed < MaxCum

Init == InitWith(TRUE)

Next ==
    \/ \E act \in Ids, type \in StartTypes, parent \in Parents :
           Fresh(act) /\ StartActivity(act, FALSE, type, "a", "f", parent)
    \/ \E act \in Ids : CumBounded /\ StopActivity(act)
    \/ \E act \in Ids, f \in ProgressFields : Result(act, "resProgress", f)
    \/ \E act \in Ids, f \in ExpectedFields : Result(act, "resSetExpected", f)

Spec == Init /\ [][Next]_vars

(***************************************************************************)
(* SpecThreads: one producer-side unit, the update thread, the input       *)
(* thread, the user at the keyboard and stop(), in every interleaving.     *)
(***************************************************************************)
InitThreads == \E tty \in BOOLEAN : InitWith(tty)

UnitProgress == Fields("", "actUnknown", 1, 2, 1, 0)

\* the keys typed in this specification
ThreadKeys == { "r", "eof" }

NextThreads ==
    \/ \E logIt \in BOOLEAN :
           Fresh(1) /\ StartActivity(1, logIt, "actBuilds", "a", "f", 0)
    \/ CumBounded /\ StopActivity(1)
    \/ ~Fresh(1) /\ Result(1, "resProgress", UnitProgress)
    \/ Log("m")
    \/ \E c \in ThreadKeys : TypeKey(c)
    \/ UpdateThreadLoop
    \/ UpdateThreadWake
    \/ UpdateThreadSpuriousWake
    \/ InputExit
    \/ InputPollBoth
    \/ InputKey
    \/ StopCall
    \/ StopJoinInput
    \/ StopLocked
    \/ StopJoinUpdate

SpecThreads == InitThreads /\ [][NextThreads]_vars

(***************************************************************************)
(* Properties of the registry.                                             *)
(***************************************************************************)
\* rollup(kind): getActivityStats on the kind's ActivitiesByType
Rollup(st, kind) == getActivityStats(st.activities, ByType(st.activitiesByType, kind))

\* the kind's cumulative done, failed and directly-set expected
Cumulative(st, kind) ==
    LET a == ByType(st.activitiesByType, kind)
    IN  << a.done, a.failed, a.expected >>

\* the kinds whose open-unit index holds id
KindsHolding(st, id) ==
    { k \in DOMAIN st.activitiesByType : Has(st.activitiesByType[k].its, id) }

\* C1: every open unit is in the flat index and in the open-unit index of
\* its own kind and of no other kind, both pointing at the same record; the
\* list has exactly one record per open id; and after stopActivity(id) the
\* id is in neither index and its record is gone.
C1_OpenUnitsIndexed ==
    /\ \A id \in DOMAIN state.its :
          /\ \E k \in DOMAIN state.activities :
                state.activities[k].node = state.its[id]
          /\ KindsHolding(state, id) = { Deref(state.activities, state.its[id]).type }
          /\ \A k \in KindsHolding(state, id) :
                state.activitiesByType[k].its[id] = state.its[id]
    /\ \A id \in Ids : KindsHolding(state, id) # {} => Has(state.its, id)
    /\ Len(state.activities) = Cardinality(DOMAIN state.its)
    /\ \A i, j \in DOMAIN state.its : state.its[i] = state.its[j] => i = j
    /\ lastOp.op = "stopActivity" =>
          /\ ~Has(state.its, lastOp.act)
          /\ KindsHolding(state, lastOp.act) = {}

\* C1 witness: a unit was stopped while another unit is still open
C1_Witness ==
    /\ lastOp.op = "stopActivity" /\ lastOp.open
    /\ DOMAIN state.its # {}

\* C7 (as claimed): a result() for an id that is not open does not fail
C7_ResultOnUnknownIdTolerated ==
    (lastOp.op \in ResultTypes /\ ~lastOp.open) => fault = "none"

Registry(st) == << st.activities, st.its, st.activitiesByType >>

\* C8: stopActivity(id) on an id that is not open leaves the flat index,
\* every kind's open-unit index, every kind's cumulative done/failed and
\* directly-set expected, and the list of records as they were, and does
\* not fail.
C8_StopOfClosedIdIsNoOp ==
    [][ (lastOp'.op = "stopActivity" /\ ~lastOp'.open) =>
            (Registry(state') = Registry(state) /\ fault' = "none") ]_vars

\* C8 witness: a stopActivity on an id that is not open, after some unit
\* was closed and folded into its kind's cumulative counters
C8_Witness ==
    /\ lastOp.op = "stopActivity" /\ ~lastOp.open
    /\ \E k \in DOMAIN state.activitiesByType : state.activitiesByType[k].done > 0
    /\ DOMAIN state.its # {}

\* the unit that a stopActivity step closes
ClosedUnit(st, id) == Deref(st.activities, st.its[id])

StopOfOpen == lastOp'.op = "stopActivity" /\ lastOp'.open

\* the kinds with an entry in activitiesByType before or after a step; a
\* kind without an entry has an all-zero rollup
KindsInStep ==
    (DOMAIN state.activitiesByType) \cup (DOMAIN state'.activitiesByType)

\* C9: the cumulative done and failed of a kind change only at the
\* stopActivity of an open unit that is not ignored, where the unit's done
\* and failed are added to the cumulative counters of its own kind and of
\* no other; rollup(kind).done and .failed are the same before and after
\* the stopActivity of any unit; closing an ignored unit changes no
\* cumulative counter of any kind.
C9_FoldedOnceAtClosure ==
    [][ /\ ~StopOfOpen =>
              \A k \in KindsInStep :
                  /\ Cumulative(state', k)[1] = Cumulative(state, k)[1]
                  /\ Cumulative(state', k)[2] = Cumulative(state, k)[2]
        /\ StopOfOpen =>
              LET u == ClosedUnit(state, lastOp'.act)
              IN  /\ \A k \in KindsInStep :
                        /\ Rollup(state', k).done = Rollup(state, k).done
                        /\ Rollup(state', k).failed = Rollup(state, k).failed
                  /\ u.ignored =>
                        \A k \in KindsInStep :
                            Cumulative(state', k) = Cumulative(state, k)
                  /\ ~u.ignored =>
                        \A k \in KindsInStep :
                            /\ Cumulative(state', k)[1] =
                                  AddU(Cumulative(state, k)[1],
                                       IF k = u.type THEN u.done ELSE 0)
                            /\ Cumulative(state', k)[2] =
                                  AddU(Cumulative(state, k)[2],
                                       IF k = u.type THEN u.failed ELSE 0)
      ]_vars

\* C9 witness: a unit with done and failed above 0 was closed and its
\* counters are in its kind's cumulative counters
C9_Witness ==
    /\ lastOp.op = "stopActivity" /\ lastOp.open
    /\ \E k \in DOMAIN state.activitiesByType :
          state.activitiesByType[k].done > 0 /\ state.activitiesByType[k].failed > 0

\* done + failed of rollup(kind)
Finished(st, kind) ==
    LET r == Rollup(st, kind) IN r.done + r.failed

\* C10 (as claimed): rollup(kind).done + rollup(kind).failed never
\* decreases from one state to the next, for every kind
C10_RollupNeverDecreases ==
    [][ \A k \in KindsInStep : Finished(state', k) >= Finished(state, k) ]_vars

\* done + failed of rollup(kind) computed without the wrap-around of the
\* unsigned counter type
RECURSIVE SumN(_, _)
SumN(S, f) ==
    IF S = {} THEN 0
    ELSE LET x == CHOOSE y \in S : TRUE IN f[x] + SumN(S \ {x}, f)

FinishedExact(st, kind) ==
    LET act == ByType(st.activitiesByType, kind)
        open == { j \in DOMAIN act.its : ~Deref(st.activities, act.its[j]).ignored }
    IN  act.done + act.failed
        + SumN(open, [j \in open |-> Deref(st.activities, act.its[j]).done
                                     + Deref(st.activities, act.its[j]).failed])

\* a resProgress step that lowers done + failed of the unit it names
LowersUnit ==
    /\ lastOp'.op = "resProgress" /\ lastOp'.open
    /\ Has(state'.its, lastOp'.act)
    /\ LET old == Deref(state.activities, state.its[lastOp'.act])
           new == Deref(state'.activities, state'.its[lastOp'.act])
       IN  new.done + new.failed < old.done + old.failed

\* C10 (amended): rollup(kind).done + rollup(kind).failed does not decrease
\* in any step other than a set-progress result that lowers done + failed
\* of its unit, as long as the total stays within the counter type.
C10_RollupDecreasesOnlyByLoweredProgress ==
    [][ \A k \in KindsInStep :
            \/ Finished(state', k) >= Finished(state, k)
            \/ LowersUnit
            \/ FinishedExact(state', k) >= UintMod ]_vars

\* C10 witness: a unit with done + failed above 0 was folded at closure
\* while another unit of the same kind is open and counted
C10_Witness ==
    /\ lastOp.op = "stopActivity" /\ lastOp.open
    /\ \E k \in DOMAIN state.activitiesByType :
          /\ state.activitiesByType[k].done > 0
          /\ Finished(state, k) > state.activitiesByType[k].done
                                  + state.activitiesByType[k].failed

(***************************************************************************)
(* Properties of the threads.                                              *)
(***************************************************************************)
\* C2 (as claimed, the part a finite run decides): when the update thread
\* has exited, the status lines were recomputed and painted after the last
\* update() made while the dashboard was active
C2_RepaintAfterLastMutation ==
    updateThread = "exited" => ~stale

\* C3 (as claimed): a stop() on an interactive dashboard is never cut off
\* by a failure of the process while it waits, and when the first stop()
\* has returned both threads have terminated and are joined, the active
\* flag is false, and the final paint of the cleared status lines was made
\* in the step that cleared the active flag
C3_StopReturnsWithThreadsDone ==
    /\ (isTTY /\ stopPc # "idle") => fault # "abort"
    /\ (isTTY /\ stopReturns >= 1) =>
          /\ inputThread = "exited" /\ updateThread = "exited"
          /\ joined = { "inputThread", "updateThread" }
          /\ ~state.active
    /\ (lastOp.op = "stop:locked") =>
          /\ ~state.active
          /\ Len(lastOp.out) = 1
          /\ lastOp.out[1].lines = 0 /\ lastOp.out[1].msg = NoMsg

\* the steps of a stop() made after an earlier stop() has returned
LaterStopStep == lastOp'.by = "stop" /\ stopReturns >= 1

\* C4: a stop() issued after a first stop() has returned paints nothing,
\* leaves the terminal mode, the pipe, the condition variable, the set of
\* joined threads and the shared state as they are, waits for no thread,
\* and returns.
C4_SecondStopIsInert ==
    [][ LaterStopStep =>
            /\ state' = state
            /\ lastOp'.out = << >>
            /\ termRaw' = termRaw /\ savedTermAttrs' = savedTermAttrs
            /\ inputPipe' = inputPipe
            /\ updateCVSignal' = updateCVSignal
            /\ joined' = joined
            /\ updateThread' = updateThread /\ inputThread' = inputThread
            /\ stopPc' \in { "lock", "idle" }
            /\ (stopPc = "lock" => stopReturns' = stopReturns + 1)
      ]_vars

\* C4 witness: the second stop() on an interactive dashboard has returned
C4_Witness ==
    /\ isTTY /\ stopReturns = 2
    /\ lastOp.op = "stop:return" /\ lastOp.act = 2

\* C5 (as claimed): once the control descriptor is readable, the next step
\* of the input thread is its exit
C5_InputExitsOnControlByte ==
    [][ (inputThread = "poll" /\ PipeReadable /\ lastOp'.by = "inputThread")
            => inputThread' = "exited" ]_vars

\* C6 (as claimed): no call made by a producer thread writes to the
\* terminal
C6_ProducersNeverWrite ==
    lastOp.by = "producer" => lastOp.out = << >>

(***************************************************************************)
(* Properties of the rollup.                                               *)
(***************************************************************************)
\* the record of open unit id, found through the flat index State::its
UnitOf(st, id) == Deref(st.activities, st.its[id])

\* the open non-ignored units of kind
OpenUnits(st, kind) ==
    { id \in DOMAIN st.its :
        UnitOf(st, id).type = kind /\ ~UnitOf(st, id).ignored }

\* the sum of a counter of the open non-ignored units of kind, as an integer
SumField(st, kind, field) ==
    SumN(OpenUnits(st, kind),
         [id \in OpenUnits(st, kind) |-> UnitOf(st, id)[field]])

\* the kinds that have an ActivitiesByType entry (rollup is all zero for
\* the others)
KnownKinds(st) == DOMAIN st.activitiesByType

\* rollup(kind).done, .failed and .running are the cumulative done and
\* failed (running 0) plus the sums over the open non-ignored units
RollupSums(st, k) ==
    /\ Rollup(st, k).done =
           (ByType(st.activitiesByType, k).done + SumField(st, k, "done")) % UintMod
    /\ Rollup(st, k).failed =
           (ByType(st.activitiesByType, k).failed + SumField(st, k, "failed")) % UintMod
    /\ Rollup(st, k).running = SumField(st, k, "running") % UintMod

\* C11 (as claimed): for every kind, rollup(kind).expected is the maximum of
\* the sum of expected over the open non-ignored units and the kind's
\* directly-set expected, and done, failed and running are the cumulative
\* counters plus the sums over the open non-ignored units.
C11_ExpectedIsMaxOfOpenSumAndDirect ==
    \A k \in KnownKinds(state) :
        /\ Rollup(state, k).expected =
               MaxOf(SumField(state, k, "expected") % UintMod,
                     ByType(state.activitiesByType, k).expected)
        /\ RollupSums(state, k)

\* C11 (amended): for every kind, rollup(kind).expected is the maximum of
\* (the kind's cumulative done plus the sum of expected over the open
\* non-ignored units) and the kind's directly-set expected; done, failed and
\* running are as claimed.  Sums are in the unsigned counter type.
C11_ExpectedCountsCumulativeDone ==
    \A k \in KnownKinds(state) :
        /\ Rollup(state, k).expected =
               MaxOf((ByType(state.activitiesByType, k).done
                      + SumField(state, k, "expected")) % UintMod,
                     ByType(state.activitiesByType, k).expected)
        /\ RollupSums(state, k)

\* C11 witness: a kind with closed units' done folded in and an open unit
\* with counters, where the cumulative done decides rollup(kind).expected
C11_Witness ==
    \E k \in KnownKinds(state) :
        /\ ByType(state.activitiesByType, k).done > 0
        /\ SumField(state, k, "expected") > 0
        /\ Rollup(state, k).expected >
               MaxOf(SumField(state, k, "expected"),
                     ByType(state.activitiesByType, k).expected)

(***************************************************************************)
(* SpecCounters: two units that report progress with done below and above  *)
(* their expected.                                                         *)
(***************************************************************************)
CounterTypes == { "actCopyPath", "actFileTransfer" }

\* (done, expected, running, failed): one report below expected, one above
CounterProgress ==
    { Fields("", "actUnknown", 1, 2, 1, 0),
      Fields("", "actUnknown", 2, 1, 0, 0) }

\* a parent is started before its children
NextCounters ==
    \/ \E act \in Ids, type \in CounterTypes, parent \in 0 .. MaxId :
           /\ Fresh(act) /\ parent < act
           /\ StartActivity(act, FALSE, type, "a", "f", parent)
    \/ \E act \in Ids : CumBounded /\ StopActivity(act)
    \/ \E act \in Ids, f \in CounterProgress :
           ~Fresh(act) /\ Result(act, "resProgress", f)

SpecCounters == Init /\ [][NextCounters]_vars

\* max(expected - done, 0) of a unit
UnitLeft(a) == IF a.expected > a.done THEN a.expected - a.done ELSE 0

\* C12: for every kind, rollup(kind).left is the sum over the open
\* non-ignored units of the kind of max(expected - done, 0); a unit whose
\* done exceeds its expected contributes 0 (no unsigned underflow).
C12_LeftIsSumOfClampedDifferences ==
    \A k \in KnownKinds(state) :
        Rollup(state, k).left =
            SumN(OpenUnits(state, k),
                 [id \in OpenUnits(state, k) |-> UnitLeft(UnitOf(state, id))])
            % UintMod

\* C12 witness: two open units of a kind, one with done above its expected
\* (contributing 0) and one below it (contributing 1)
C12_Witness ==
    \E k \in KnownKinds(state) :
        /\ \E a, b \in OpenUnits(state, k) :
               /\ UnitOf(state, a).done > UnitOf(state, a).expected
               /\ UnitOf(state, b).done < UnitOf(state, b).expected
        /\ Rollup(state, k).left = 1

(***************************************************************************)
(* SpecRender: units of the kinds with a summary group report progress     *)
(* and are closed while the update thread recomputes and paints.           *)
(***************************************************************************)
RenderTypes == { "actFileTransfer", "actBuilds" }

\* (done, expected, running, failed): a quarter done with one running, the
\* largest done with one failure, and expected set with nothing done
RenderProgress ==
    { Fields("", "actUnknown", 1, 4, 1, 0),
      Fields("", "actUnknown", UintMax, 2, 0, 1),
      Fields("", "actUnknown", 0, 4, 0, 0) }

NextRender ==
    \/ \E type \in RenderTypes :
           Fresh(1) /\ StartActivity(1, FALSE, type, "a", "f", 0)
    \/ CumBounded /\ StopActivity(1)
    \/ \E f \in RenderProgress : ~Fresh(1) /\ Result(1, "resProgress", f)
    \/ UpdateThreadLoop
    \/ UpdateThreadWake
    \/ UpdateThreadSpuriousWake

SpecRender == Init /\ [][NextRender]_vars

\* the step just taken is the update thread's updateStatusLine and draw
Redrawn == lastOp.op = "redraw"

\* C13 (as claimed): whatever counters reach renderBar, its boundaries are
\* in order, so neither assertion of renderBar fails in updateStatusLine
C13_BarAssertionsNeverFail ==
    Redrawn => fault = "none"

(***************************************************************************)
(* SpecKinds: chains of parents of up to MaxChain units, the last one a    *)
(* FileTransfer that reports progress and sets expected.                   *)
(***************************************************************************)
ChainIds == 1 .. MaxChain

\* the kinds a unit of the chain is started with: the last id is the
\* transfer, the first the top-level unit
ChainTypes(act) ==
    IF act = MaxChain THEN { "actFileTransfer" }
    ELSE IF act = 1 THEN { "actQueryPathInfo", "actCopyPath", "actSubstitute" }
    ELSE { "actSubstitute", "actCopyPath" }

ChainProgress == Fields("", "actUnknown", 1, 2, 1, 0)
ChainExpected == Fields("", "actFileTransfer", 0, 2, 0, 0)

\* a parent is started before its children
NextKinds ==
    \/ \E act \in ChainIds, parent \in 0 .. MaxChain :
           /\ Fresh(act) /\ parent < act
           /\ \E type \in ChainTypes(act) :
                  StartActivity(act, FALSE, type, "a", "f", parent)
    \/ \E act \in ChainIds : CumBounded /\ StopActivity(act)
    \/ ~Fresh(MaxChain) /\ Result(MaxChain, "resProgress", ChainProgress)
    \/ ~Fresh(MaxChain) /\ Result(MaxChain, "resSetExpected", ChainExpected)

SpecKinds == Init /\ [][NextKinds]_vars

RECURSIVE ChainKinds(_, _, _)
\* the kinds of the open units met from act on along the parents, at most
\* n of them
ChainKinds(st, act, n) ==
    IF n = 0 \/ act = 0 \/ ~Has(st.its, act) THEN {}
    ELSE { UnitOf(st, act).type }
         \cup ChainKinds(st, UnitOf(st, act).parent, n - 1)

\* the kinds of the open units on the parent chain of open unit id
AncestorKinds(st, id) == ChainKinds(st, UnitOf(st, id).parent, MaxChain)

\* the step is a startActivity that returned
StartStep == lastOp'.op = "startActivity" /\ fault' = "none"

\* ignored is the same before and after the step for the units open at both
IgnoredKept ==
    \A id \in DOMAIN state.its \cap DOMAIN state'.its :
        UnitOf(state', id).ignored = UnitOf(state, id).ignored

\* C14 (as claimed): startActivity creates a unit ignored exactly when its
\* kind is FileTransfer or CopyPath and an open unit on its parent chain is
\* a Substitute or a QueryPathInfo; the flag never changes afterwards.
C14_IgnoredUnderSubstituteOrQuery ==
    [][ /\ StartStep =>
            ( UnitOf(state', lastOp'.act).ignored <=>
                /\ UnitOf(state', lastOp'.act).type
                       \in { "actFileTransfer", "actCopyPath" }
                /\ AncestorKinds(state', lastOp'.act)
                       \cap { "actSubstitute", "actQueryPathInfo" } # {} )
        /\ IgnoredKept ]_vars

\* C14 (amended): startActivity creates a unit ignored exactly when its kind
\* is FileTransfer and an open unit on its parent chain is a CopyPath or a
\* QueryPathInfo; the flag never changes afterwards.
C14_IgnoredTransferUnderCopyOrQuery ==
    [][ /\ StartStep =>
            ( UnitOf(state', lastOp'.act).ignored <=>
                /\ UnitOf(state', lastOp'.act).type = "actFileTransfer"
                /\ AncestorKinds(state', lastOp'.act)
                       \cap { "actCopyPath", "actQueryPathInfo" } # {} )
        /\ IgnoredKept ]_vars

\* C14 witness: a FileTransfer just created ignored below a CopyPath, next
\* to a CopyPath below a Substitute that is not ignored
C14_Witness ==
    /\ lastOp.op = "startActivity" /\ fault = "none"
    /\ UnitOf(state, lastOp.act).type = "actFileTransfer"
    /\ UnitOf(state, lastOp.act).ignored
    /\ \E c \in DOMAIN state.its :
           /\ c = UnitOf(state, lastOp.act).parent
           /\ UnitOf(state, c).type = "actCopyPath"
           /\ ~UnitOf(state, c).ignored
           /\ "actSubstitute" \in AncestorKinds(state, c)

\* the unit the step is about is a FileTransfer that is ignored, in the
\* state where it is open
OnIgnoredTransfer ==
    /\ lastOp'.by = "producer" /\ lastOp'.act # 0
    /\ \E st \in { state, state' } :
           /\ Has(st.its, lastOp'.act)
           /\ UnitOf(st, lastOp'.act).type = "actFileTransfer"
           /\ UnitOf(st, lastOp'.act).ignored

\* the step starts a FileTransfer with an open QueryPathInfo on its chain
StartsTransferUnderQuery ==
    /\ StartStep
    /\ UnitOf(state', lastOp'.act).type = "actFileTransfer"
    /\ "actQueryPathInfo" \in AncestorKinds(state', lastOp'.act)

\* C15: a FileTransfer started with an open QueryPathInfo on its parent
\* chain is ignored, and no call on it (its start, its set-progress and
\* set-expected results, its closure) changes rollup(FileTransfer) or the
\* kind's cumulative counters.
C15_TransferUnderQueryNeverCounted ==
    [][ /\ StartsTransferUnderQuery => UnitOf(state', lastOp'.act).ignored
        /\ OnIgnoredTransfer =>
               /\ Rollup(state', "actFileTransfer") = Rollup(state, "actFileTransfer")
               /\ Cumulative(state', "actFileTransfer")
                      = Cumulative(state, "actFileTransfer") ]_vars

\* C15 witness: the FileTransfer of the chain QueryPathInfo -> Substitute ->
\* FileTransfer has just received a result
C15_Witness ==
    /\ lastOp.op \in { "resProgress", "resSetExpected" } /\ lastOp.open
    /\ UnitOf(state, lastOp.act).type = "actFileTransfer"
    /\ UnitOf(state, lastOp.act).ignored
    /\ \E s \in DOMAIN state.its :
           /\ s = UnitOf(state, lastOp.act).parent
           /\ UnitOf(state, s).type = "actSubstitute"
           /\ UnitOf(state, s).parent \in DOMAIN state.its
           /\ UnitOf(state, UnitOf(state, s).parent).type = "actQueryPathInfo"

(***************************************************************************)
(* SpecExpected: two units set the expected of two kinds to two values     *)
(* and are closed.                                                         *)
(***************************************************************************)
\* resSetExpected(kind, value)
ExpectedInputs ==
    { Fields("", "actCopyPath", 0, 1, 0, 0),
      Fields("", "actCopyPath", 0, 2, 0, 0),
      Fields("", "actBuilds", 0, 2, 0, 0) }

NextExpected ==
    \/ \E act \in Ids, type \in CounterTypes, parent \in 0 .. MaxId :
           /\ Fresh(act) /\ parent < act
           /\ StartActivity(act, FALSE, type, "a", "f", parent)
    \/ \E act \in Ids : StopActivity(act)
    \/ \E act \in Ids, f \in ExpectedInputs :
           ~Fresh(act) /\ Result(act, "resSetExpected", f)

SpecExpected == Init /\ [][NextExpected]_vars

\* what unit record a contributes to the directly-set expected of kind
Contribution(a, kind) ==
    IF Has(a.expectedByType, kind) THEN a.expectedByType[kind] ELSE 0

\* the directly-set expected of kind
DirectExpected(st, kind) == ByType(st.activitiesByType, kind).expected

\* the kinds a directly-set expected exists for, before or after the step
ExpectedKinds == KnownKinds(state) \cup KnownKinds(state')

\* the units other than id are as they were
OthersKept(id) ==
    \A o \in (DOMAIN state.its \cup DOMAIN state'.its) \ { id } :
        /\ Has(state.its, o) /\ Has(state'.its, o)
        /\ UnitOf(state', o) = UnitOf(state, o)

\* the step is call op on a unit that was open and not ignored
OnCountedUnit(op) ==
    /\ lastOp'.op = op /\ lastOp'.open
    /\ ~UnitOf(state, lastOp'.act).ignored

C17_EveryWaitHasTimeout ==
    ~( /\ state.active
       /\ updateThread = "waitUpdateCV"
       /\ ~updateCVSignal )

(***************************************************************************)
(* SpecRemaining: units announce and withdraw pending builds and           *)
(* substitutions while the user types 'r'.                                 *)
(***************************************************************************)
\* store paths named by resExpectBuild .. resUnexpectSubstitution
RemainingPaths == { "p", "q" }

RemainingResults ==
    { "resExpectBuild", "resUnexpectBuild", "resExpectSubstitution" }

NextRemaining ==
    \/ \E act \in Ids : Fresh(act) /\ StartActivity(act, FALSE, "actBuilds", "a", "f", 0)
    \/ \E act \in Ids : StopActivity(act)
    \/ \E act \in Ids, type \in RemainingResults, path \in RemainingPaths :
           /\ ~Fresh(act)
           /\ Result(act, type, Fields(path, "actUnknown", 0, 0, 0, 0))
    \/ TypeKey("r")
    \/ InputKey

SpecRemaining == Init /\ [][NextRemaining]_vars

\* the pending builds and substitutions of all open units
PendingBuilds(st) ==
    UNION { UnitOf(st, id).buildsRemaining : id \in DOMAIN st.its }
PendingSubstitutions(st) ==
    UNION { UnitOf(st, id).substitutionsRemaining : id \in DOMAIN st.its }

\* C18: the 'r' command makes one terminal write whose transient message
\* lists the union over the open units of the pending builds and of the
\* pending substitutions, each path once, and is exactly the fixed
\* nothing-remaining text with no list when both are empty; the status
\* lines, the registry and every rollup stay as they were.
C18_RemainingCommandPaintsUnion ==
    [][ lastOp'.op = "key:r" =>
          /\ Len(lastOp'.out) = 1
          /\ Len(lastOp'.out[1].msg) = 1
          /\ lastOp'.out[1].msg[1].builds = PendingBuilds(state)
          /\ lastOp'.out[1].msg[1].substitutions = PendingSubstitutions(state)
          /\ ( lastOp'.out[1].msg[1].text
                   = "Nothing left to be built or substituted."
               <=> PendingBuilds(state) \cup PendingSubstitutions(state) = {} )
          /\ state'.statusLines = state.statusLines
          /\ Registry(state') = Registry(state)
          /\ \A k \in KnownKinds(state) \cup KnownKinds(state') :
                 Rollup(state', k) = Rollup(state, k) ]_vars

\* C18 witness: 'r' was typed while two open units both wait for build p,
\* one of them for build q too; the message lists p and q once each
C18_Witness ==
    /\ lastOp.op = "key:r"
    /\ Len(lastOp.out) = 1
    /\ lastOp.out[1].msg[1].builds = { "p", "q" }
    /\ \E a, b \in DOMAIN state.its :
           /\ a # b
           /\ "p" \in UnitOf(state, a).buildsRemaining
           /\ UnitOf(state, b).buildsRemaining = { "p", "q" }

(***************************************************************************)
(* Properties of the recomputed status lines.                              *)
(***************************************************************************)
\* floor(barLength * min(x / e, 1)) for e > 0
Boundary(x, e) == IF x >= e THEN barLength ELSE (barLength * x) \div e

\* the record of the only open unit
TheUnit == UnitOf(state, CHOOSE id \in DOMAIN state.its : TRUE)

\* the only open unit is a non-ignored FileTransfer with counters
\* (d, e, r, 0), e > 0, and no FileTransfer was closed before
SingleTransfer ==
    /\ Cardinality(DOMAIN state.its) = 1
    /\ TheUnit.type = "actFileTransfer"
    /\ ~TheUnit.ignored
    /\ TheUnit.failed = 0
    /\ TheUnit.expected > 0
    /\ Cumulative(state, "actFileTransfer") = << 0, 0, 0 >>

\* the three boundaries of the bar line of the "Downloaded" group
DownloadsBar ==
    state.statusLines[<< StatusLineGroup.idDownload, 1 >>].nums

\* rollup(FileTransfer) of a single unit with counters (d, e, r, 0)
SingleTransferRollup(d, e) ==
    /\ Rollup(state, "actFileTransfer").done = d
    /\ Rollup(state, "actFileTransfer").expected = e
    /\ Rollup(state, "actFileTransfer").left = IF e > d THEN e - d ELSE 0

\* C19 (as claimed): with a single open FileTransfer unit that reported
\* (d, e, r, 0), rollup(FileTransfer) has done d, expected e, left
\* max(e - d, 0), and the recomputed downloads bar has boundaries 0,
\* floor(W min(d/e, 1)) and floor(W min((d + r)/e, 1)).
C19_BarShowsRunning ==
    (Redrawn /\ fault = "none" /\ SingleTransfer) =>
        /\ SingleTransferRollup(TheUnit.done, TheUnit.expected)
        /\ DownloadsBar =
               << 0, Boundary(TheUnit.done, TheUnit.expected),
                  Boundary(TheUnit.done + TheUnit.running, TheUnit.expected) >>

\* C19 (amended): the rollup is as claimed, and the recomputed downloads
\* bar, of barLength = 70 cells, has boundaries 0, floor(70 min(d/e, 1)) and
\* floor(70 min((d + left)/e, 1)) with left = max(e - d, 0): the third
\* segment covers what is left, not what is running.
C19_BarShowsLeft ==
    (Redrawn /\ fault = "none" /\ SingleTransfer) =>
        /\ SingleTransferRollup(TheUnit.done, TheUnit.expected)
        /\ DownloadsBar =
               << 0, Boundary(TheUnit.done, TheUnit.expected),
                  Boundary(TheUnit.done + UnitLeft(TheUnit), TheUnit.expected) >>

\* C19 witness: the bar was recomputed for a single FileTransfer with
\* (1, 4, 1, 0): done ends at 17 and the third segment at 70
C19_Witness ==
    /\ Redrawn /\ fault = "none"
    /\ SingleTransfer
    /\ TheUnit.done = 1 /\ TheUnit.expected = 4 /\ TheUnit.running = 1
    /\ DownloadsBar = << 0, 17, 70 >>

\* the summary groups of updateStatusLine: the group's id, the kind whose
\* rollup decides whether the group has data, and the kind whose open units
\* get a line each (only the non-ignored ones when skip is set)
SummaryGroups ==
    { [ id |-> StatusLineGroup.idDownload, kind |-> "actFileTransfer",
        units |-> "actFileTransfer", skip |-> TRUE ],
      [ id |-> StatusLineGroup.idCopyPaths, kind |-> "actCopyPath",
        units |-> "actSubstitute", skip |-> FALSE ],
      [ id |-> StatusLineGroup.idBuilds, kind |-> "actBuilds",
        units |-> "actBuild", skip |-> FALSE ] }

\* the keys of the status-line map that belong to group id
GroupKeys(st, id) == { k \in DOMAIN st.statusLines : k[1] = id }

\* the group's rollup has no activity
NoActivity(st, kind) ==
    Rollup(st, kind).done = 0 /\ Rollup(st, kind).expected = 0

\* the number of unit lines of group g
UnitLineCount(st, g) ==
    Cardinality({ id \in DOMAIN st.its :
                    /\ UnitOf(st, id).type = g.units
                    /\ g.skip => ~UnitOf(st, id).ignored })

\* C20 (as claimed): after every recomputation of the status lines, a group
\* whose rollup has done = 0 and expected = 0 has no entry in the
\* status-line map, and a group with data has exactly the entries of this
\* recomputation: summary line, bar, one line per unit, blank line.
C20_IdleGroupsHaveNoEntries ==
    (Redrawn /\ fault = "none") =>
        \A g \in SummaryGroups :
            IF NoActivity(state, g.kind)
            THEN GroupKeys(state, g.id) = {}
            ELSE GroupKeys(state, g.id) =
                     { << g.id, n >> : n \in 0 .. (2 + UnitLineCount(state, g)) }

(***************************************************************************)
(* The parent chain and the walk of hasAncestor.                           *)
(***************************************************************************)
RECURSIVE ChainRevisits(_, _, _)
\* following ActInfo::parent from id act on through the open units comes
\* back to a unit in seen or to one it has been at
ChainRevisits(st, act, seen) ==
    IF act = 0 \/ ~Has(st.its, act) THEN FALSE
    ELSE IF act \in seen THEN TRUE
    ELSE ChainRevisits(st, UnitOf(st, act).parent, seen \cup {act})

\* no open unit is its own ancestor
ParentChainAcyclic(st) ==
    \A id \in DOMAIN st.its : ~ChainRevisits(st, id, {})

\* C21: whatever parent ids the callers of startActivity choose, the parent
\* chain of every open unit is acyclic and the hasAncestor walks of a
\* startActivity end (at id 0, at an id that is not open, or at a unit of
\* the kind looked for) without being at a unit twice.
C21_AncestorWalkTerminates ==
    /\ ParentChainAcyclic(state)
    /\ lastOp.op = "startActivity" => fault # "hang"

(***************************************************************************)
(* draw on an inactive and on an active dashboard.                         *)
(***************************************************************************)
\* the step is a turn of the update thread (lines 175-176) taken when
\* stop() had already cleared state.active, no assertion failing
InactiveRedrawStep ==
    lastOp'.op = "redraw" /\ ~state.active /\ fault' = "none"

\* the step wrote to the terminal through draw
DrawStep ==
    lastOp'.out # << >> /\ lastOp'.out[Len(lastOp'.out)].kind = "draw"

\* after a step that painted, prevStatusLines is the number of status
\* lines of the last paint
PrevIsDrawn ==
    DrawStep => state'.prevStatusLines = lastOp'.out[Len(lastOp'.out)].lines

\* the state u.st an inactive turn of the update thread hands to draw is
\* left as it is in every field but haveUpdate, which is haveUpdate
\* afterwards
InactiveDrawLeaves(u, haveUpdate) ==
    state' = [u.st EXCEPT !.haveUpdate = haveUpdate]

\* C22 (as claimed): on an inactive dashboard draw writes nothing and
\* leaves every field of the state unchanged, prevStatusLines and haveUpdate
\* included; on an active one prevStatusLines is, after each paint, the
\* number of status lines just drawn.
C22_InactiveDrawChangesNothing ==
    [][ /\ InactiveRedrawStep =>
               /\ lastOp'.out = << >>
               /\ InactiveDrawLeaves(updateStatusLine(state), state.haveUpdate)
        /\ PrevIsDrawn ]_vars

\* C22 (amended): on an inactive dashboard draw writes nothing and leaves
\* every field of the state unchanged except haveUpdate, which it clears
\* before it looks at active; on an active one prevStatusLines is, after
\* each paint, the number of status lines just drawn.
C22_InactiveDrawOnlyClearsHaveUpdate ==
    [][ /\ InactiveRedrawStep =>
               /\ lastOp'.out = << >>
               /\ InactiveDrawLeaves(updateStatusLine(state), FALSE)
        /\ PrevIsDrawn ]_vars

\* C22 witness: the update thread went through draw after stop() had
\* cleared active, with status lines to draw: nothing was written, the
\* count of drawn lines is still that of stop()'s last paint, and
\* haveUpdate is false
C22_Witness ==
    /\ lastOp.op = "redraw" /\ fault = "none"
    /\ ~state.active
    /\ lastOp.out = << >>
    /\ Has(state.its, 1)
    /\ Cardinality(DOMAIN state.statusLines) > 0
    /\ state.prevStatusLines = 0
    /\ ~state.haveUpdate

(***************************************************************************)
(* SpecDirect: two units set the expected of two kinds to a small and to   *)
(* the largest value of the counter type, and are closed.                  *)
(***************************************************************************)
\* resSetExpected(kind, value)
DirectInputs ==
    { Fields("", k, 0, v, 0, 0) :
        k \in { "actCopyPath", "actBuilds" }, v \in { 2, UintMax } }

\* a parent is started before its children
NextDirect ==
    \/ \E act \in Ids, type \in CounterTypes, parent \in 0 .. MaxId :
           /\ Fresh(act) /\ parent < act
           /\ StartActivity(act, FALSE, type, "a", "f", parent)
    \/ \E act \in Ids : StopActivity(act)
    \/ \E act \in Ids, f \in DirectInputs :
           ~Fresh(act) /\ Result(act, "resSetExpected", f)

SpecDirect == Init /\ [][NextDirect]_vars

\* the open units that are not ignored
CountedUnits(st) == { id \in DOMAIN st.its : ~UnitOf(st, id).ignored }

\* the sum, as an integer, of what the open non-ignored units contribute to
\* the directly-set expected of kind
ContributionSum(st, kind) ==
    SumN(CountedUnits(st),
         [id \in CountedUnits(st) |-> Contribution(UnitOf(st, id), kind)])

\* the step is a resSetExpected or a stopActivity on an open non-ignored
\* unit: the calls that subtract from a directly-set expected
SubtractingStep ==
    OnCountedUnit("resSetExpected") \/ OnCountedUnit("stopActivity")

\* the directly-set expected of every kind is 0 when no unit is open
ZeroWhenNoneOpen(st) ==
    DOMAIN st.its = {} =>
        \A k \in ActivityTypes : DirectExpected(st, k) = 0

\* C23 (as claimed): for every kind the directly-set expected is the sum of
\* the contributions of the open non-ignored units, the subtractions of
\* resSetExpected and stopActivity never take more than the counter holds,
\* and the directly-set expected is 0 when no unit is open.
C23_DirectExpectedIsSumOfContributions ==
    [][ /\ \A k \in ActivityTypes :
               DirectExpected(state', k) = ContributionSum(state', k)
        /\ SubtractingStep =>
               \A k \in ActivityTypes :
                   DirectExpected(state, k)
                       >= Contribution(UnitOf(state, lastOp'.act), k)
        /\ ZeroWhenNoneOpen(state') ]_vars

\* C23 (amended): for every kind the directly-set expected is the sum of
\* the contributions of the open non-ignored units modulo 2^64 (the width
\* of the counter); a subtraction of resSetExpected or stopActivity takes
\* more than the counter holds only when that sum had gone beyond the
\* largest counter value; and the directly-set expected is 0 when no unit
\* is open.
C23_DirectExpectedIsSumModuloWidth ==
    [][ /\ \A k \in ActivityTypes :
               DirectExpected(state', k) = ContributionSum(state', k) % UintMod
        /\ SubtractingStep =>
               \A k \in ActivityTypes :
                   DirectExpected(state, k)
                       < Contribution(UnitOf(state, lastOp'.act), k)
                   => ContributionSum(state, k) > UintMax
        /\ ZeroWhenNoneOpen(state') ]_vars

\* C23 witness: a unit has just set its contribution to CopyPath; the two
\* open non-ignored units contribute the largest counter value and 2, and
\* the directly-set expected of CopyPath holds their sum modulo the width
C23_Witness ==
    /\ lastOp.op = "resSetExpected" /\ lastOp.open
    /\ Cardinality(CountedUnits(state)) = 2
    /\ ContributionSum(state, "actCopyPath") = UintMax + 2
    /\ DirectExpected(state, "actCopyPath") = 1

(***************************************************************************)
(* The threads of the constructor at the return of stop().                 *)
(***************************************************************************)
\* the threads the constructor started: the update thread always (line
\* 170), the input thread on a terminal only (line 196)
StartedThreads ==
    { "updateThread" } \cup
        (IF inputThread # "unstarted" THEN { "inputThread" } ELSE {})

\* thread th has left its function
Terminated(th) ==
    IF th = "updateThread" THEN updateThread = "exited"
    ELSE inputThread = "exited"

\* C24: on a terminal or not, once the first stop() has returned every
\* thread the constructor started has terminated and has been joined; when
\* the dashboard was constructed inactive the update thread leaves its loop
\* without painting and stop() still joins it.
C24_FirstStopJoinsEveryThread ==
    /\ stopReturns >= 1 =>
           \A th \in StartedThreads : Terminated(th) /\ th \in joined
    /\ (~isTTY /\ lastOp.by = "updateThread") =>
           lastOp.op = "exit" /\ lastOp.out = << >>
====
